---- MODULE Spec2Model ----
(***************************************************************************)
(* The indexer's processor contract (transaction_processor.rs), its        *)
(* Postgres metadata handle (postgres_processor.rs) and the default        *)
(* processor's persistence protocol (default_processor.rs), as a state     *)
(* machine over the backend store.                                         *)
(***************************************************************************)
EXTENDS Integers, Sequences, FiniteSets, TLC

\* Ledger versions are 0..MaxVersion.
MaxVersion == 2
\* PROCESSOR_INVOCATIONS is capped at MaxCalls per process lifetime.
MaxCalls == 2

Versions == 0..MaxVersion

\* name() of the processor under study, and the label the default processor
\* hands to process_transactions (default_processor.rs:37).
DefaultName == "default"
ProcessTransactionsLabel == "process_transactions"
Names == {DefaultName, ProcessTransactionsLabel}

Null == "null"
NoRow == [absent |-> TRUE]
NoRange == [absent |-> TRUE]
NoResult == [absent |-> TRUE]
NoQuery == [absent |-> TRUE]
NoStmts == [absent |-> TRUE]
NoConv == [absent |-> TRUE]

Families ==
    {"transactions", "user_transactions", "block_metadata_transactions",
     "events", "write_set_changes"}

EmptyTables ==
    [transactions |-> {}, user_transactions |-> {},
     block_metadata_transactions |-> {}, events |-> {}, write_set_changes |-> {}]

VARIABLES
    ledger,       \* the upstream ledger: version -> raw transaction (final)
    status,       \* processor_statuses: <<name, version>> -> row or NoRow
    tables,       \* the five committed row families
    tx,           \* rows inserted by the open backend transaction, uncommitted
    pc,           \* position of the processor task
    range,        \* [start_version, end_version] of the call in progress
    lastRes,      \* what the last returned call of process_transactions_with_status returned
    counters,     \* PROCESSOR_INVOCATIONS / SUCCESSES / ERRORS of name()
    sqlError,     \* the statement of the call in progress that failed, if any
    killed,       \* the range that was in flight when the process was last killed
    tailer,       \* the tailer's record of its iterations
    query,        \* the last call on the metadata handle and what it returned
    conn,         \* GOT_CONNECTION / UNABLE_TO_GET_CONNECTION and the pool's own tally
    call,         \* the call in progress on the tailer's metadata handle
    ledger_infos, \* the ledger_infos table: the set of recorded chain ids
    clock,        \* the wall clock read for last_updated
    stmts,        \* the statements the last chunked insert was split into
    conv          \* the last u64 / decimal conversion and its outcome

\* The state of the processor task and of its store.
core == <<ledger, status, tables, tx, pc, range, lastRes, counters, sqlError, killed>>

\* The state of the tailer and of the metadata handles.
aux == <<tailer, query, conn, call, ledger_infos, clock, stmts, conv>>

vars == <<core, aux>>

-----------------------------------------------------------------------------
(* The upstream ledger *)

TxnTypes == <<"genesis_transaction", "block_metadata_transaction", "user_transaction">>

\* A raw transaction of version v; rot rotates the variants over the versions.
RawTransaction(v, rot) ==
    [version |-> v,
     type    |-> TxnTypes[((v + rot) % 3) + 1],
     events  |-> [i \in 1..((v + rot) % 3) |-> <<v, i>>],
     changes |-> [i \in 1..((v + rot + 1) % 3) |-> <<v, i>>]]

Ledgers == {[v \in Versions |-> RawTransaction(v, rot)] : rot \in 0..2}

\* The batch the fetcher hands over for versions s..e, in version order.
Batch(s, e) == [i \in 1..(e - s + 1) |-> ledger[s + i - 1]]

SeqRange(s) == {s[i] : i \in DOMAIN s}

-----------------------------------------------------------------------------
(* Row families *)

\* TransactionModel::from_transactions: the five row families of a batch.
from_transactions(txns) ==
    LET T == SeqRange(txns) IN
    [transactions |-> {[version |-> t.version, type |-> t.type] : t \in T},
     user_transactions |->
        {[version |-> t.version] : t \in {u \in T : u.type = "user_transaction"}},
     block_metadata_transactions |->
        {[version |-> t.version] : t \in {u \in T : u.type = "block_metadata_transaction"}},
     events |->
        UNION {{[key |-> t.events[i], transaction_version |-> t.version]
                    : i \in DOMAIN t.events} : t \in T},
     write_set_changes |->
        UNION {{[transaction_version |-> t.version, index |-> i - 1,
                 data |-> t.changes[i]]
                    : i \in DOMAIN t.changes} : t \in T}]

\* Primary key of a row of a family (schema of the backend store).
PrimaryKey(fam, r) ==
    CASE fam = "events" -> r.key
      [] fam = "write_set_changes" -> <<r.transaction_version, r.index>>
      [] OTHER -> r.version

\* The ledger version a row of a family was derived from.
RowVersion(fam, r) ==
    IF fam \in {"events", "write_set_changes"} THEN r.transaction_version ELSE r.version

\* insert_into(table).values(rows).on_conflict_do_nothing(): a row is added
\* unless a row with its primary key is already there.
InsertOnConflictDoNothing(fam, present, rows) ==
    {r \in rows : \A q \in present : PrimaryKey(fam, q) # PrimaryKey(fam, r)}

-----------------------------------------------------------------------------
(* Processor statuses and the metadata handle *)

\* Parameter limit of one statement and the column count of ProcessorStatusModel
\* (name, version, success, details, last_updated).
MAX_PARAMS_PER_STATEMENT == 65535
ProcessorStatusFieldCount == 5

\* get_chunks(num_items, column_count): the (start, end) index pairs, end
\* exclusive, of the statements an insert of num_items rows is split into.
RECURSIVE ChunksFrom(_, _, _)
ChunksFrom(start, num_items, size) ==
    IF start + size >= num_items
    THEN <<<<start, num_items>>>>
    ELSE <<<<start, start + size>>>> \o ChunksFrom(start + size, num_items, size)

get_chunks(num_items, column_count) ==
    ChunksFrom(0, num_items, MAX_PARAMS_PER_STATEMENT \div column_count)

\* ProcessorStatusModel::from_versions: one row per version of start..=end,
\* each stamped with the time of the call.
from_versions(name, start_version, end_version, success, details) ==
    [i \in 1..(end_version - start_version + 1) |->
        [name |-> name, version |-> start_version + i - 1,
         success |-> success, details |-> details, last_updated |-> clock]]

\* The statement with ON CONFLICT DO NOTHING in place of DO UPDATE: a row whose
\* key is present is left as it is.
RECURSIVE UpsertStatement_DoNothing(_, _, _, _)
UpsertStatement_DoNothing(st, psms, lo, hi) ==
    IF lo >= hi THEN st
    ELSE UpsertStatement_DoNothing(
            IF st[<<psms[lo + 1].name, psms[lo + 1].version>>] # NoRow THEN st
            ELSE [st EXCEPT ![<<psms[lo + 1].name, psms[lo + 1].version>>] =
                    [success |-> psms[lo + 1].success, details |-> psms[lo + 1].details,
                     last_updated |-> psms[lo + 1].last_updated]],
            psms, lo + 1, hi)

\* One statement of apply_processor_status: rows psms[lo+1..hi] are upserted by
\* primary key (name, version); on conflict success, details and last_updated
\* are overwritten with the values of the row given.
RECURSIVE UpsertStatement(_, _, _, _)
UpsertStatement(st, psms, lo, hi) ==
    IF lo >= hi THEN st
    ELSE UpsertStatement(
            [st EXCEPT ![<<psms[lo + 1].name, psms[lo + 1].version>>] =
                [success |-> psms[lo + 1].success, details |-> psms[lo + 1].details,
                 last_updated |-> psms[lo + 1].last_updated]],
            psms, lo + 1, hi)

RECURSIVE ApplyChunks(_, _, _)
ApplyChunks(st, psms, chunks) ==
    IF chunks = <<>> THEN st
    ELSE ApplyChunks(UpsertStatement(st, psms, Head(chunks)[1], Head(chunks)[2]),
                     psms, Tail(chunks))

\* PgProcessorMetadataHandle::apply_processor_status
apply_processor_status(st, psms) ==
    ApplyChunks(st, psms, get_chunks(Len(psms), ProcessorStatusFieldCount))

\* get_error_versions with the filter on the name left out of the query.
get_error_versions_AnyName(st, processor_name) ==
    {v \in Versions : \E n \in Names :
        /\ st[<<n, v>>] # NoRow
        /\ st[<<n, v>>].success = FALSE}

\* PgProcessorMetadataHandle::get_error_versions: the versions of the rows of
\* processor_name with success = false (each once: (name, version) is the key).
get_error_versions(st, processor_name) ==
    {v \in Versions :
        /\ st[<<processor_name, v>>] # NoRow
        /\ st[<<processor_name, v>>].success = FALSE}

\* A u64 has WordBits bits; a decimal has up to MaxScale digits after the point.
WordBits == 4
MaxScale == 1
U64Limit == 2^WordBits
U64 == 0..(U64Limit - 1)

\* A BigDecimal is int_val * 10^(-scale). Numeric(n) is the decimal a numeric
\* column holding the whole number n is loaded as.
Numeric(n) == [int_val |-> n, scale |-> 0]

\* .expect(..) on an Option: None panics, Some(x) gives x.
Expect(opt) ==
    IF opt = <<>> THEN [panicked |-> TRUE] ELSE [panicked |-> FALSE, value |-> opt[1]]

\* BigDecimal::from_u64: Some of the decimal with the digits of val, scale 0.
from_u64(val) == <<[int_val |-> val, scale |-> 0]>>

\* util::u64_to_bigdecimal (util.rs:6-8)
u64_to_bigdecimal(val) == Expect(from_u64(val))

\* to_u64 that keeps the low bits of a value that does not fit.
to_u64_Wrapping(val) == <<(val.int_val \div 10^val.scale) % U64Limit>>

\* BigDecimal::to_u64: None for a negative decimal; otherwise the digits after
\* the point are dropped and the whole part is Some if it fits a u64.
to_u64(val) ==
    IF val.int_val < 0 THEN <<>>
    ELSE LET whole == val.int_val \div 10^val.scale
         IN  IF whole < U64Limit THEN <<whole>> ELSE <<>>

\* util::bigdecimal_to_u64 (util.rs:10-12): val.to_u64().expect(..)
bigdecimal_to_u64(val) == Expect(to_u64(val))

\* The greatest element of a non-empty set of numbers (SQL max).
SqlMax(S) == CHOOSE m \in S : \A x \in S : x <= m

\* get_max_version with the filter on the name left out of the query.
get_max_version_AnyName(st, processor_name) ==
    LET selected == {k[2] : k \in {j \in DOMAIN st : st[j] # NoRow}}
    IN  IF selected = {} THEN <<>>
        ELSE <<bigdecimal_to_u64(Numeric(SqlMax(selected))).value>>

\* PgProcessorMetadataHandle::get_max_version: select max(version) of the rows
\* of processor_name; <<>> is None, <<v>> is Some(v).
get_max_version(st, processor_name) ==
    LET selected == {k[2] : k \in {j \in DOMAIN st :
                                    st[j] # NoRow /\ j[1] = processor_name}}
    IN  IF selected = {} THEN <<>>
        ELSE <<bigdecimal_to_u64(Numeric(SqlMax(selected))).value>>

\* The orders in which a query without ORDER BY may hand back the rows S.
LoadOrders(S) ==
    {f \in [1..Cardinality(S) -> S] : \A i, j \in DOMAIN f : f[i] = f[j] => i = j}

\* mark_versions_started with the range taken one version too late.
mark_versions_started_SkipFirst(st, name, start_version, end_version) ==
    apply_processor_status(st,
        from_versions(name, start_version + 1, end_version, FALSE, Null))

\* TransactionProcessor::mark_versions_started
mark_versions_started(st, name, start_version, end_version) ==
    apply_processor_status(st, from_versions(name, start_version, end_version, FALSE, Null))

\* TransactionProcessor::update_status_success, when its future is run.
update_status_success(st, ctr, name, processing_result) ==
    [counters |-> [ctr EXCEPT !.successes = @ + 1],
     status |-> apply_processor_status(st,
                    from_versions(name, processing_result.start_version,
                                  processing_result.end_version, TRUE, Null))]

\* ProcessorStatusModel::from_transaction_processing_err: a row per version of
\* the failed range, keyed by the name the error carries.
from_transaction_processing_err(tpe) ==
    from_versions(tpe.name, tpe.start_version, tpe.end_version, FALSE, tpe.kind)

\* TransactionProcessor::update_status_err, when its future is run.
update_status_err(st, ctr, tpe) ==
    [counters |-> [ctr EXCEPT !.errors = @ + 1],
     status |-> apply_processor_status(st, from_transaction_processing_err(tpe))]

-----------------------------------------------------------------------------
(* Results of process_transactions (default_processor.rs:156-186) *)

\* Ok(ProcessingResult::new(&name, start_version, end_version))
ProcessingResult(name, start_version, end_version) ==
    [ok |-> TRUE, name |-> name,
     start_version |-> start_version, end_version |-> end_version]

\* Err(TransactionProcessingError::TransactionCommitError((err, start, end, &name)))
TransactionCommitError(name, start_version, end_version) ==
    [ok |-> FALSE, kind |-> "TransactionCommitError", name |-> name,
     start_version |-> start_version, end_version |-> end_version]

-----------------------------------------------------------------------------
(* The processor task *)

\* insert_to_db runs the five inserts in this order inside one transaction.
InsertOrder ==
    <<"transactions", "user_transactions", "block_metadata_transactions",
      "events", "write_set_changes">>

\* The position after the insert of InsertOrder[i].
AfterInsert(i) == IF i = Len(InsertOrder) THEN "commit" ELSE InsertOrder[i + 1]

InFlight == {"marked", "commit", "panicked"} \cup Families

ZeroCounters == [invocations |-> 0, successes |-> 0, errors |-> 0]

\* Nothing has been asked of the tailer or of the metadata handles yet.
AuxInit ==
    /\ tailer = [batches |-> 0, allOk |-> TRUE]
    /\ query = NoQuery
    /\ conn = [got |-> 0, unable |-> 0, granted |-> 0, refused |-> 0]
    /\ call = [pc |-> "idle", op |-> "none", arg |-> 0, result |-> <<>>]
    /\ ledger_infos = {}
    /\ clock = 0
    /\ stmts = NoStmts
    /\ conv = NoConv

Init ==
    /\ AuxInit
    /\ ledger \in Ledgers
    /\ status = [k \in Names \X Versions |-> NoRow]
    /\ tables = EmptyTables
    /\ tx = EmptyTables
    /\ pc = "idle"
    /\ range = NoRange
    /\ lastRes = NoResult
    /\ counters = ZeroCounters
    /\ sqlError = "none"
    /\ killed = NoRange

\* process_transactions_with_status on an empty list, with the invocation
\* counted before the assertion is evaluated.
InvokeEmpty_CountedFirst ==
    /\ pc = "idle"
    /\ counters.invocations < MaxCalls
    /\ counters' = [counters EXCEPT !.invocations = @ + 1]
    /\ pc' = "asserted"
    /\ lastRes' = NoResult
    /\ sqlError' = "none"
    /\ UNCHANGED <<ledger, status, tables, tx, range, killed>>

\* process_transactions_with_status on an empty list of transactions
\* (transaction_processor.rs:50-53): assert!(!txns.is_empty(), ..) panics, the
\* task is gone before any other statement of the function has run.
InvokeEmpty ==
    /\ pc = "idle"
    /\ counters.invocations < MaxCalls
    /\ pc' = "asserted"
    /\ lastRes' = NoResult
    /\ sqlError' = "none"
    /\ UNCHANGED <<ledger, status, tables, tx, range, counters, killed>>

\* process_transactions_with_status going on to process_transactions without
\* the started upsert having been applied.
Invoke_NotMarked(s, e) ==
    /\ pc = "idle"
    /\ s <= e
    /\ counters.invocations < MaxCalls
    /\ counters' = [counters EXCEPT !.invocations = @ + 1]
    /\ range' = [start_version |-> s, end_version |-> e]
    /\ pc' = "marked"
    /\ lastRes' = NoResult
    /\ sqlError' = "none"
    /\ UNCHANGED <<ledger, status, tables, tx, killed>>

\* process_transactions_with_status up to the call of process_transactions
\* (transaction_processor.rs:50-62), for the batch of versions s..e: the
\* invocation counter is incremented and the range is marked started.
Invoke(s, e) ==
    /\ pc = "idle"
    /\ s <= e
    /\ counters.invocations < MaxCalls
    /\ counters' = [counters EXCEPT !.invocations = @ + 1]
    /\ status' = mark_versions_started(status, DefaultName, s, e)
    /\ range' = [start_version |-> s, end_version |-> e]
    /\ pc' = "marked"
    /\ lastRes' = NoResult
    /\ sqlError' = "none"
    /\ UNCHANGED <<ledger, tables, tx, killed>>

\* The end of process_transactions_with_status with both futures awaited: the
\* status rows of the range are overwritten as update_status_success and
\* update_status_err write them.
Return_AwaitsStatus(res) ==
    LET upd == IF res.ok THEN update_status_success(status, counters, DefaultName, res)
               ELSE update_status_err(status, counters, res)
    IN  /\ lastRes' = res
        /\ pc' = "idle"
        /\ range' = NoRange
        /\ status' = upd.status
        /\ counters' = upd.counters

\* The end of process_transactions_with_status (transaction_processor.rs:67-71)
\* with the result res of process_transactions: the match builds the future of
\* update_status_success or of update_status_err and drops it at the `;`
\* without .await, so neither body runs; res goes back to the caller.
Return(res) ==
    /\ lastRes' = res
    /\ pc' = "idle"
    /\ range' = NoRange
    /\ UNCHANGED <<status, counters>>

\* conn.build_transaction().read_write().run(..): BEGIN succeeds.
Begin ==
    /\ pc = "marked"
    /\ tx' = EmptyTables
    /\ pc' = InsertOrder[1]
    /\ UNCHANGED <<ledger, status, tables, range, lastRes, counters, sqlError, killed>>

\* BEGIN fails: run returns Err and process_transactions wraps it.
BeginFail ==
    /\ pc = "marked"
    /\ sqlError' = "begin"
    /\ Return(TransactionCommitError(ProcessTransactionsLabel,
                                     range.start_version, range.end_version))
    /\ UNCHANGED <<ledger, tables, tx, killed>>

\* insert_block_metadata_transactions handed the user transaction rows: the
\* other inserts as they are.
Insert_UserRowsForBlockMetadata(i) ==
    LET fam == InsertOrder[i]
        from == IF fam = "block_metadata_transactions" THEN "user_transactions" ELSE fam
        rows == from_transactions(Batch(range.start_version, range.end_version))[from]
    IN  /\ pc = fam
        /\ tx' = [tx EXCEPT ![fam] =
                    @ \cup InsertOnConflictDoNothing(fam, tables[fam] \cup @, rows)]
        /\ pc' = AfterInsert(i)
        /\ UNCHANGED <<ledger, status, tables, range, lastRes, counters, sqlError, killed>>

\* insert_transactions .. insert_write_set_changes: every statement of the
\* family's insert succeeds; the rows are visible to the transaction only.
Insert(i) ==
    LET fam == InsertOrder[i]
        rows == from_transactions(Batch(range.start_version, range.end_version))[fam]
    IN  /\ pc = fam
        /\ tx' = [tx EXCEPT ![fam] =
                    @ \cup InsertOnConflictDoNothing(fam, tables[fam] \cup @, rows)]
        /\ pc' = AfterInsert(i)
        /\ UNCHANGED <<ledger, status, tables, range, lastRes, counters, sqlError, killed>>

\* A statement of the family's insert fails: .expect("Error inserting row into
\* database") panics, the task is gone and the open transaction with it.
InsertFail(i) ==
    /\ pc = InsertOrder[i]
    /\ sqlError' = InsertOrder[i]
    /\ tx' = EmptyTables
    /\ pc' = "panicked"
    /\ UNCHANGED <<ledger, status, tables, range, lastRes, counters, killed>>

\* COMMIT succeeds: the rows of the transaction become visible together and
\* process_transactions returns Ok(ProcessingResult).
Commit ==
    /\ pc = "commit"
    /\ tables' = [fam \in Families |-> tables[fam] \cup tx[fam]]
    /\ tx' = EmptyTables
    /\ Return(ProcessingResult(ProcessTransactionsLabel,
                               range.start_version, range.end_version))
    /\ UNCHANGED <<ledger, sqlError, killed>>

\* A failed COMMIT that leaves the rows of the transaction behind.
CommitFail_KeepsRows ==
    /\ pc = "commit"
    /\ sqlError' = "commit"
    /\ tables' = [fam \in Families |-> tables[fam] \cup tx[fam]]
    /\ tx' = EmptyTables
    /\ lastRes' = TransactionCommitError(ProcessTransactionsLabel,
                                         range.start_version, range.end_version)
    /\ pc' = "idle"
    /\ range' = NoRange
    /\ UNCHANGED <<ledger, status, counters, killed>>

\* COMMIT fails: the transaction is rolled back, run returns Err and
\* process_transactions returns TransactionCommitError.
CommitFail ==
    /\ pc = "commit"
    /\ sqlError' = "commit"
    /\ tx' = EmptyTables
    /\ Return(TransactionCommitError(ProcessTransactionsLabel,
                                     range.start_version, range.end_version))
    /\ UNCHANGED <<ledger, tables, killed>>

\* The process is killed (or has failed on a panic) and is started again: the
\* store keeps what was committed, everything in memory is lost.
Kill ==
    /\ killed' = IF pc \in InFlight THEN range ELSE NoRange
    /\ pc' = "idle"
    /\ range' = NoRange
    /\ tx' = EmptyTables
    /\ lastRes' = NoResult
    /\ counters' = ZeroCounters
    /\ sqlError' = "none"
    /\ UNCHANGED <<ledger, status, tables>>

Next ==
    \/ \E s, e \in Versions : Invoke(s, e) /\ UNCHANGED aux
    \/ InvokeEmpty /\ UNCHANGED aux
    \/ Begin /\ UNCHANGED aux
    \/ BeginFail /\ UNCHANGED aux
    \/ \E i \in DOMAIN InsertOrder : Insert(i) /\ UNCHANGED aux
    \/ \E i \in DOMAIN InsertOrder : InsertFail(i) /\ UNCHANGED aux
    \/ Commit /\ UNCHANGED aux
    \/ CommitFail /\ UNCHANGED aux
    \/ Kill /\ UNCHANGED aux

Spec == Init /\ [][Next]_vars

-----------------------------------------------------------------------------
(* The tailer driving the processor *)

\* The configured batch size B of the tailer.
BatchSize == 1

Min(a, b) == IF a < b THEN a ELSE b

\* resume = 1 + get_max_version(name).unwrap_or(-1)
Resume ==
    LET m == get_max_version(status, DefaultName)
    IN  IF m = <<>> THEN 0 ELSE m[1] + 1

\* One tailer iteration dispatches the next batch [R, R + B), cut off at what
\* the upstream ledger holds, to process_transactions_with_status.
TailerBatch ==
    /\ Resume <= MaxVersion
    /\ Invoke(Resume, Min(Resume + BatchSize - 1, MaxVersion))
    /\ tailer' = [tailer EXCEPT !.batches = @ + 1]
    /\ UNCHANGED <<query, conn, call, ledger_infos, clock, stmts, conv>>

\* The retry path: a version of get_error_versions(name) is dispatched again.
TailerRetry(v) ==
    /\ v \in get_error_versions(status, DefaultName)
    /\ Invoke(v, v)
    /\ UNCHANGED aux

\* A step of the processor task that fails, or a kill while a range is in
\* flight, ends the run of iterations that all succeeded.
TailerSeesFailure ==
    /\ tailer' = [tailer EXCEPT !.allOk = FALSE]
    /\ UNCHANGED <<query, conn, call, ledger_infos, clock, stmts, conv>>

NextTailer ==
    \/ TailerBatch
    \/ \E v \in Versions : TailerRetry(v)
    \/ Begin /\ UNCHANGED aux
    \/ \E i \in DOMAIN InsertOrder : Insert(i) /\ UNCHANGED aux
    \/ Commit /\ UNCHANGED aux
    \/ BeginFail /\ TailerSeesFailure
    \/ \E i \in DOMAIN InsertOrder : InsertFail(i) /\ TailerSeesFailure
    \/ CommitFail /\ TailerSeesFailure
    \/ Kill /\ pc \in InFlight /\ TailerSeesFailure
    \/ Kill /\ pc = "idle" /\ UNCHANGED aux

SpecTailer == Init /\ [][NextTailer]_vars

-----------------------------------------------------------------------------
(* The metadata handle on its own: any caller, any order of calls *)

\* The clock is read at most MaxClock times: one reading per call of
\* apply_processor_status.
MaxClock == 2

\* The callers of the handle taken on its own pass versions 0..MaxMetaVersion.
MaxMetaVersion == 1
MetaVersions == 0..MaxMetaVersion

\* (success, details) of the rows the processor contract builds: started,
\* succeeded and errored.
StatusKinds == {<<FALSE, Null>>, <<TRUE, Null>>, <<FALSE, "TransactionCommitError">>}

\* A call of apply_processor_status(psms); time passes before the next call.
\* conflicts are the positions of the rows whose key was already present.
ApplyProcessorStatus(psms) ==
    /\ clock < MaxClock
    /\ status' = apply_processor_status(status, psms)
    /\ clock' = clock + 1
    /\ query' = [op |-> "apply_processor_status", psms |-> psms,
                 conflicts |-> {i \in DOMAIN psms :
                                status[<<psms[i].name, psms[i].version>>] # NoRow}]
    /\ UNCHANGED <<ledger, tables, tx, pc, range, lastRes, counters, sqlError, killed>>
    /\ UNCHANGED <<tailer, conn, call, ledger_infos, stmts, conv>>

\* A call of get_max_version(name) and the Option it returns.
GetMaxVersion(name) ==
    /\ query' = [op |-> "get_max_version", name |-> name,
                 result |-> get_max_version(status, name)]
    /\ UNCHANGED <<core, tailer, conn, call, ledger_infos, clock, stmts, conv>>

\* A call of get_error_versions(name) and the Vec it returns: the selected
\* versions in the order the backend loads them, each through bigdecimal_to_u64.
GetErrorVersions(name) ==
    /\ \E f \in LoadOrders(get_error_versions(status, name)) :
            query' = [op |-> "get_error_versions", name |-> name,
                      result |-> [i \in DOMAIN f |-> bigdecimal_to_u64(Numeric(f[i])).value]]
    /\ UNCHANGED <<core, tailer, conn, call, ledger_infos, clock, stmts, conv>>

NextMeta ==
    \/ \E name \in Names : \E s, e \in MetaVersions : \E kind \in StatusKinds :
            /\ s <= e
            /\ ApplyProcessorStatus(from_versions(name, s, e, kind[1], kind[2]))
    \/ \E name \in Names : GetMaxVersion(name)
    \/ \E name \in Names : GetErrorVersions(name)

\* The handle does not read the upstream ledger: one ledger stands for all.
InitMeta == Init /\ ledger = [v \in Versions |-> RawTransaction(v, 0)]

SpecMeta == InitMeta /\ [][NextMeta]_vars

-----------------------------------------------------------------------------
(* The tailer's metadata handle and the connection pool *)

\* GOT_CONNECTION is capped at MaxAcquisitions and UNABLE_TO_GET_CONNECTION at
\* MaxRefusals.
MaxAcquisitions == 3
MaxRefusals == 2

\* The chain ids an upstream endpoint may report.
ChainIds == {1, 2}

\* What the processor task, the tailer and the status handle own.
notHandle == <<core, tailer, query, clock, stmts, conv>>

\* get_ledger_info is called: its first step is get_pg_conn_from_pool.
GetLedgerInfo ==
    /\ call.pc = "idle"
    /\ conn.got < MaxAcquisitions
    /\ call' = [pc |-> "acquiring", op |-> "get_ledger_info", arg |-> 0, result |-> <<>>]
    /\ UNCHANGED <<notHandle, conn, ledger_infos>>

\* set_ledger_info(ledger_info) is called: its first step is get_pg_conn_from_pool.
SetLedgerInfo(chain_id) ==
    /\ call.pc = "idle"
    /\ conn.got < MaxAcquisitions
    /\ call' = [pc |-> "acquiring", op |-> "set_ledger_info", arg |-> chain_id,
                result |-> <<>>]
    /\ UNCHANGED <<notHandle, conn, ledger_infos>>

\* An iteration of the loop whose failed attempt is not counted.
PoolRefuses_NotCounted ==
    /\ call.pc = "acquiring"
    /\ conn.refused < MaxRefusals
    /\ conn' = [conn EXCEPT !.refused = @ + 1]
    /\ UNCHANGED <<notHandle, call, ledger_infos>>

\* An iteration of the loop of get_pg_conn_from_pool in which pool.get()
\* returns Err: UNABLE_TO_GET_CONNECTION.inc(), the error is logged and the
\* loop goes round again.
PoolRefuses ==
    /\ call.pc = "acquiring"
    /\ conn.refused < MaxRefusals
    /\ conn' = [conn EXCEPT !.unable = @ + 1, !.refused = @ + 1]
    /\ UNCHANGED <<notHandle, call, ledger_infos>>

\* An iteration in which pool.get() returns Ok(conn): GOT_CONNECTION.inc() and
\* the connection is returned.
PoolGrants ==
    /\ call.pc = "acquiring"
    /\ conn' = [conn EXCEPT !.got = @ + 1, !.granted = @ + 1]
    /\ call' = [call EXCEPT !.pc = "holding"]
    /\ UNCHANGED <<notHandle, ledger_infos>>

\* get_ledger_info on the connection: all rows are loaded (no ORDER BY) and the
\* first of them, if any, is returned.
LoadLedgerInfo ==
    /\ call.pc = "holding"
    /\ call.op = "get_ledger_info"
    /\ \E f \in LoadOrders(ledger_infos) :
            call' = [call EXCEPT !.pc = "idle",
                                 !.result = IF DOMAIN f = {} THEN <<>> ELSE <<f[1]>>]
    /\ UNCHANGED <<notHandle, conn, ledger_infos>>

\* set_ledger_info on the connection: the plain INSERT adds the row (chain_id
\* is the primary key, so the value must not be there yet) and Ok(()) is
\* returned.
InsertLedgerInfo ==
    /\ call.pc = "holding"
    /\ call.op = "set_ledger_info"
    /\ call.arg \notin ledger_infos
    /\ ledger_infos' = ledger_infos \cup {call.arg}
    /\ call' = [call EXCEPT !.pc = "idle", !.result = <<"Ok">>]
    /\ UNCHANGED <<notHandle, conn>>

\* The INSERT fails (the key is already there, or the backend reports any other
\* error): Err(io::Error(WriteZero)) is returned and nothing is written.
InsertLedgerInfoFail ==
    /\ call.pc = "holding"
    /\ call.op = "set_ledger_info"
    /\ call' = [call EXCEPT !.pc = "idle", !.result = <<"WriteZero">>]
    /\ UNCHANGED <<notHandle, conn, ledger_infos>>

NextHandle ==
    \/ GetLedgerInfo
    \/ \E chain_id \in ChainIds : SetLedgerInfo(chain_id)
    \/ PoolRefuses
    \/ PoolGrants
    \/ LoadLedgerInfo
    \/ InsertLedgerInfo
    \/ InsertLedgerInfoFail

\* The pool yields a connection in the end: an attempt that can succeed is not
\* put off for ever.
SpecHandle == Init /\ [][NextHandle]_vars /\ WF_vars(PoolGrants)

-----------------------------------------------------------------------------
(* Chunked inserts *)

\* An insert is followed over up to MaxChunks full chunks.
MaxChunks == 2

ChunkedFamilies == Families \cup {"processor_statuses"}

\* Model::field_count() of the row model of each family: the columns of its table.
FieldCount(fam) ==
    CASE fam = "transactions" -> 9
      [] fam = "user_transactions" -> 9
      [] fam = "block_metadata_transactions" -> 7
      [] fam = "events" -> 7
      [] fam = "write_set_changes" -> 8
      [] fam = "processor_statuses" -> ProcessorStatusFieldCount

\* The column count the insert of each family hands to get_chunks:
\* insert_block_metadata_transactions hands over UserTransactionModel::field_count()
\* (default_processor.rs:115), every other insert the count of its own model.
ChunkFieldCount(fam) ==
    IF fam = "block_metadata_transactions"
    THEN FieldCount("user_transactions")
    ELSE FieldCount(fam)

\* Numbers of rows around the multiples of the chunk sizes.
ItemCounts ==
    {n \in UNION {{k * (MAX_PARAMS_PER_STATEMENT \div FieldCount(f)) + d
                        : k \in 0..MaxChunks, d \in -1..1} : f \in ChunkedFamilies}
        : n >= 0}

\* The insert of num_items rows of a family: the rows [start, end) of each
\* chunk of get_chunks go into one statement.
ChunkInsert(fam, num_items) ==
    /\ stmts' = [family |-> fam, num_items |-> num_items,
                 chunks |-> get_chunks(num_items, ChunkFieldCount(fam))]
    /\ UNCHANGED <<core, tailer, query, conn, call, ledger_infos, clock, conv>>

NextChunks ==
    \E fam \in ChunkedFamilies : \E num_items \in ItemCounts : ChunkInsert(fam, num_items)

SpecChunks == Init /\ [][NextChunks]_vars

-----------------------------------------------------------------------------
(* The u64 / decimal conversions *)

\* The decimals around the whole numbers from below zero to above the u64
\* range, at every scale.
Decimals ==
    UNION {{[int_val |-> k * 10^sc + d, scale |-> sc]
                : k \in -2..(U64Limit + 2), d \in -1..1} : sc \in 0..MaxScale}

\* The decimal is a number of [0, 2^WordBits).
InU64Range(val) == val.int_val >= 0 /\ val.int_val < U64Limit * 10^val.scale

\* bigdecimal_to_u64(u64_to_bigdecimal(val))
RoundTrip(val) ==
    /\ conv' = [op |-> "round_trip", input |-> val,
                outcome |-> LET wide == u64_to_bigdecimal(val)
                            IN  IF wide.panicked THEN wide
                                ELSE bigdecimal_to_u64(wide.value)]
    /\ UNCHANGED <<core, tailer, query, conn, call, ledger_infos, clock, stmts>>

\* bigdecimal_to_u64(val) of a decimal read from the backend.
Narrow(val) ==
    /\ conv' = [op |-> "bigdecimal_to_u64", input |-> val,
                outcome |-> bigdecimal_to_u64(val)]
    /\ UNCHANGED <<core, tailer, query, conn, call, ledger_infos, clock, stmts>>

NextConv ==
    \/ \E val \in U64 : RoundTrip(val)
    \/ \E val \in Decimals : Narrow(val)

SpecConv == Init /\ [][NextConv]_vars

TypeOK ==
    /\ pc \in {"idle", "asserted"} \cup InFlight
    /\ (range = NoRange) <=> (pc \in {"idle", "asserted"})
    /\ \A k \in Names \X Versions :
        status[k] = NoRow
            \/ status[k] \in [success : BOOLEAN, details : {Null, "TransactionCommitError"},
                             last_updated : Nat]
    /\ \A fam \in Families : tx[fam] \cap tables[fam] = {}

\* No step of the task writes a status row other than a started row: the only
\* upsert that runs is the one of mark_versions_started.
OnlyStartedRows ==
    \A k \in Names \X Versions :
        status[k] = NoRow \/ (status[k].success = FALSE /\ status[k].details = Null)

-----------------------------------------------------------------------------
(* Observations used by the properties *)

StatusRow(v) == status[<<DefaultName, v>>]

\* The status row of version v is in the started state / the succeeded state.
Started(v) ==
    StatusRow(v) # NoRow /\ StatusRow(v).success = FALSE /\ StatusRow(v).details = Null
Succeeded(v) ==
    StatusRow(v) # NoRow /\ StatusRow(v).success = TRUE /\ StatusRow(v).details = Null

\* The rows the default processor derives from version v alone.
RowsOfVersion(v) == from_transactions(Batch(v, v))

AllRowsVisible(v) == \A fam \in Families : RowsOfVersion(v)[fam] \subseteq tables[fam]
SomeRowVisible(v) == \E fam \in Families : \E r \in tables[fam] : RowVersion(fam, r) = v

\* process_transactions_with_status has returned to its caller.
Returned == pc = "idle" /\ lastRes # NoResult
ReturnedOk == Returned /\ lastRes.ok
ReturnedErr == Returned /\ ~lastRes.ok
ResRange == lastRes.start_version..lastRes.end_version
CallRange == range.start_version..range.end_version

-----------------------------------------------------------------------------
(* Properties *)

\* C1: when process_transactions returned Ok, every version of the range has a
\* status row with success = true and details = null by the time
\* process_transactions_with_status has returned.
C1_SuccessRecordedOnReturn ==
    ReturnedOk => \A v \in ResRange : Succeeded(v)

\* C2: when process_transactions returned an error, a status row of the failed
\* range carries success = false and the formatted error as details by the time
\* process_transactions_with_status has returned with that error.
C2_ErrorRecordedOnReturn ==
    ReturnedErr =>
        \E n \in Names : \E v \in ResRange :
            /\ status[<<n, v>>] # NoRow
            /\ status[<<n, v>>].success = FALSE
            /\ status[<<n, v>>].details # Null

\* C4 (as stated): whenever rows of a version are visible, the status row of
\* that version is success = true.
C4_RowsCommitWithSuccess ==
    \A v \in Versions : SomeRowVisible(v) => Succeeded(v)

\* C4 (amended): the rows of a version are visible all together or not at all,
\* and whenever they are visible the version has a status row of the processor
\* (which need not be success = true).
C4_RowsAtomicAndStatusRowPresent ==
    \A v \in Versions :
        SomeRowVisible(v) => (AllRowsVisible(v) /\ StatusRow(v) # NoRow)

C4_Witness ==
    \E v \in Versions : SomeRowVisible(v) /\ Started(v)

\* C5 (as stated): whenever process_transactions returned an error for a range,
\* no row of any version of the range is visible and no version of the range
\* is success = true.
C5_NoRowsAfterError ==
    ReturnedErr =>
        \A v \in ResRange : ~SomeRowVisible(v) /\ ~Succeeded(v)

\* C5 (amended): rows become visible only in the step in which
\* process_transactions returns Ok, so an attempt that returns an error leaves
\* every row family exactly as it was before the attempt, and when the error
\* is returned no version of the range is success = true.
C5_ErrorLeavesRowsUntouched ==
    [][/\ (tables' # tables) => (pc = "commit" /\ pc' = "idle" /\ lastRes'.ok)
       /\ (pc' = "idle" /\ lastRes' # NoResult /\ lastRes # lastRes' /\ ~lastRes'.ok)
            => \A v \in CallRange :
                    /\ status'[<<DefaultName, v>>] # NoRow
                    /\ status'[<<DefaultName, v>>].success = FALSE
                    /\ status'[<<DefaultName, v>>].details = Null
      ]_vars

C5_Witness ==
    ReturnedErr /\ \E v \in ResRange : SomeRowVisible(v)

\* C6: if an insert statement of a row family fails, process_transactions
\* returns TransactionCommitError to its caller (the task is not aborted) and
\* nothing of the range is visible from this attempt.
C6_InsertErrorIsReturned ==
    (sqlError \in Families) =>
        /\ pc # "panicked"
        /\ ReturnedErr
        /\ lastRes.kind = "TransactionCommitError"

\* C7: after a kill while a range was in flight, get_error_versions holds
\* exactly the versions of the range not committed as succeeded, and once the
\* range has been reprocessed successfully its versions are success = true with
\* all their rows visible.
C7_CrashRecovery ==
    /\ (killed # NoRange /\ pc = "idle" /\ counters.invocations = 0) =>
            \A v \in killed.start_version..killed.end_version :
                v \in get_error_versions(status, DefaultName) <=> ~Succeeded(v)
    /\ (killed # NoRange /\ ReturnedOk
            /\ lastRes.start_version = killed.start_version
            /\ lastRes.end_version = killed.end_version) =>
            \A v \in ResRange : Succeeded(v) /\ AllRowsVisible(v)

\* C8: after one or more successful runs on a batch the row families hold
\* exactly the rows derived from the batch for its versions, and the status
\* table holds success = true for each of its versions.
C8_Idempotence ==
    ReturnedOk =>
        /\ \A fam \in Families :
                {r \in tables[fam] : RowVersion(fam, r) \in ResRange}
                    = from_transactions(Batch(lastRes.start_version, lastRes.end_version))[fam]
        /\ \A v \in ResRange : Succeeded(v)

\* C10: while the inserts of a call are executed and when they are committed,
\* every version of the range already has its started row (success = false,
\* details = null), and only rows of versions of the range are inserted.
C10_StartedBeforeInserts ==
    (pc \in Families \cup {"commit"}) =>
        /\ \A v \in CallRange : Started(v)
        /\ \A fam \in Families : \A r \in tx[fam] : RowVersion(fam, r) \in CallRange

C10_Witness ==
    /\ pc = "commit"
    /\ tx["transactions"] # {}
    /\ \A v \in CallRange : Started(v)

\* C11: after N tailer iterations that all succeeded, from an empty status
\* table and with enough upstream transactions, get_max_version(name) is
\* N * B - 1 and get_error_versions(name) is empty.
C11_GapFreeHappyPath ==
    (/\ pc = "idle"
     /\ tailer.allOk
     /\ tailer.batches >= 1
     /\ tailer.batches * BatchSize - 1 <= MaxVersion) =>
        /\ get_max_version(status, DefaultName) = <<tailer.batches * BatchSize - 1>>
        /\ get_error_versions(status, DefaultName) = {}

\* C12: a version dispatched again whose processing has returned Ok is
\* success = true and no longer in get_error_versions(name).
C12_RetriedVersionLeavesErrorVersions ==
    ReturnedOk =>
        \A v \in ResRange :
            /\ v \notin get_error_versions(status, DefaultName)
            /\ StatusRow(v).success

\* The last call on the metadata handle was op.
Queried(op) == query # NoQuery /\ query.op = op

\* The versions that have a status row of the name.
VersionsOf(name) == {v \in Versions : status[<<name, v>>] # NoRow}

\* C13: get_max_version(name) returns the largest version that has a status
\* row of the name, whatever its success flag, and none when the name has no
\* row; the rows of other names have no part in it.
C13_MaxVersionOfName ==
    Queried("get_max_version") =>
        /\ (query.result = <<>>) <=> (VersionsOf(query.name) = {})
        /\ (query.result # <<>>) =>
                /\ Len(query.result) = 1
                /\ query.result[1] \in VersionsOf(query.name)
                /\ \A v \in VersionsOf(query.name) : v <= query.result[1]

\* get_max_version has answered with the version of a success = false row
\* while another name holds a row of a larger version.
C13_Witness ==
    /\ Queried("get_max_version")
    /\ query.result # <<>>
    /\ status[<<query.name, query.result[1]>>].success = FALSE
    /\ \E n \in Names \ {query.name} : \E v \in VersionsOf(n) : v > query.result[1]

\* C14: get_error_versions(name) returns every version whose row of the name
\* is success = false, started and errored rows alike, each once, and no
\* version whose row of the name is success = true or missing.
C14_ErrorVersionsOfName ==
    Queried("get_error_versions") =>
        /\ \A i, j \in DOMAIN query.result : query.result[i] = query.result[j] => i = j
        /\ \A v \in Versions :
            LET row == status[<<query.name, v>>]
                returned == v \in SeqRange(query.result)
            IN  /\ (row = NoRow) => ~returned
                /\ (row # NoRow /\ row.success) => ~returned
                /\ (row # NoRow /\ ~row.success /\ row.details = Null) => returned
                /\ (row # NoRow /\ ~row.success /\ row.details # Null) => returned
        /\ SeqRange(query.result) \subseteq Versions

\* get_error_versions has returned some version and left out a version that
\* is success = false under another name only.
C14_Witness ==
    /\ Queried("get_error_versions")
    /\ query.result # <<>>
    /\ \E n \in Names \ {query.name} : \E v \in VersionsOf(n) :
            /\ ~status[<<n, v>>].success
            /\ v \notin SeqRange(query.result)

\* The positions of psms whose row has the key k.
RowsFor(psms, k) == {i \in DOMAIN psms : <<psms[i].name, psms[i].version>> = k}

\* The status row the table holds once the row r has been upserted.
Stored(r) == [success |-> r.success, details |-> r.details, last_updated |-> r.last_updated]

\* C15: a call of apply_processor_status leaves one row per (name, version)
\* key; the key of every row passed holds the success, details and
\* last_updated of the last row passed for it, every other key is as before,
\* and the outcome is the same whatever the size of the chunks.
C15_UpsertOverwrites ==
    [][(clock' # clock /\ query' # NoQuery /\ query'.op = "apply_processor_status") =>
        LET psms == query'.psms IN
        /\ DOMAIN status' = Names \X Versions
        /\ \A k \in Names \X Versions :
            IF RowsFor(psms, k) = {}
            THEN status'[k] = status[k]
            ELSE status'[k] = Stored(psms[SqlMax(RowsFor(psms, k))])
        /\ \A size \in 1..Len(psms) :
                ApplyChunks(status, psms, ChunksFrom(0, Len(psms), size)) = status'
      ]_vars

\* A call of two rows has found one of its keys present, with another success
\* flag, and the other key absent.
C15_Witness ==
    /\ Queried("apply_processor_status")
    /\ Len(query.psms) = 2
    /\ Cardinality(query.conflicts) = 1
    /\ query.psms[1].success
    /\ \A i \in DOMAIN query.psms :
            status[<<query.psms[i].name, query.psms[i].version>>] = Stored(query.psms[i])

\* process_transactions_with_status returns in this step.
Returns == pc # "idle" /\ pc' = "idle" /\ lastRes' # NoResult

\* C16: what process_transactions returns, Ok or Err, carries the
\* start_version and end_version of the call and the processor's name().
C16_ResultCarriesProcessorName ==
    [][Returns =>
        /\ lastRes'.start_version = range.start_version
        /\ lastRes'.end_version = range.end_version
        /\ lastRes'.name = DefaultName
      ]_vars

C18_AcquisitionCountsAndTerminates ==
    /\ [](conn.unable = conn.refused /\ conn.got = conn.granted)
    /\ [][call.pc = "acquiring" =>
            \/ /\ call'.pc = "acquiring"
               /\ conn'.unable = conn.unable + 1
               /\ conn'.got = conn.got
            \/ /\ call'.pc = "holding"
               /\ conn'.got = conn.got + 1
               /\ conn'.unable = conn.unable
         ]_vars
    /\ (call.pc = "acquiring") ~> (call.pc = "holding")

\* A connection is held after the pool had refused MaxRefusals times.
C18_Witness ==
    /\ call.pc = "holding"
    /\ conn.refused = MaxRefusals
    /\ conn.unable = MaxRefusals
    /\ conn.got >= 1

\* C20: ledger_infos never holds more than one row, and get_ledger_info
\* returns that one row whenever there is one.
C20_OneLedgerInfoRow ==
    /\ Cardinality(ledger_infos) <= 1
    /\ (call.pc = "idle" /\ call.op = "get_ledger_info" /\ ledger_infos # {}) =>
            \A c \in ledger_infos : call.result = <<c>>

\* The number of parameters a statement of rows [c[1], c[2]) of the family binds.
Params(fam, c) == (c[2] - c[1]) * FieldCount(fam)

\* C19: the insert of every family is split with the chunk size
\* floor(65535 / field_count(Family)) of that family, no statement binds more
\* than 65535 parameters, and the chunks cover the rows once each, in order.
C19_ChunkedByOwnFieldCount ==
    (stmts # NoStmts) =>
        LET ch == stmts.chunks
            size == MAX_PARAMS_PER_STATEMENT \div FieldCount(stmts.family)
        IN  /\ ch = ChunksFrom(0, stmts.num_items, size)
            /\ \A i \in DOMAIN ch : Params(stmts.family, ch[i]) <= MAX_PARAMS_PER_STATEMENT
            /\ ch[1][1] = 0
            /\ ch[Len(ch)][2] = stmts.num_items
            /\ \A i \in 1..(Len(ch) - 1) : ch[i][2] = ch[i + 1][1]

\* The visible rows of a family derived from version v.
VisibleRows(fam, v) == {r \in tables[fam] : RowVersion(fam, r) = v}

\* 1 if the raw transaction of version v is of the variant, else 0.
OneIf(v, variant) == IF ledger[v].type = variant THEN 1 ELSE 0

C23_ErrorVersionsAscending ==
    Queried("get_error_versions") =>
        \A i, j \in DOMAIN query.result : i < j => query.result[i] < query.result[j]

\* C24: a call of process_transactions_with_status with an empty list stops on
\* the assertion: the step changes no status row, no row family and no
\* counter of the processor, and nothing of process_transactions runs after
\* it (the only step left is the restart of the process).
C24_EmptyBatchTouchesNothing ==
    [][/\ (pc = "idle" /\ pc' = "asserted") =>
            /\ status' = status
            /\ tables' = tables
            /\ tx' = tx
            /\ counters' = counters
       /\ (pc = "asserted") =>
            /\ pc' = "idle"
            /\ status' = status
            /\ tables' = tables
      ]_vars

\* The assertion has stopped a call made after an earlier call had been
\* counted, had written its started rows and had committed its rows.
C24_Witness ==
    /\ pc = "asserted"
    /\ counters.invocations = 1
    /\ \E v \in Versions : Started(v) /\ AllRowsVisible(v)

\* C25: whenever no call is in progress, PROCESSOR_INVOCATIONS equals
\* PROCESSOR_SUCCESSES + PROCESSOR_ERRORS, one success per call that returned
\* Ok and one error per call that returned Err.
C25_MetricAccounting ==
    (pc = "idle") =>
        /\ counters.invocations = counters.successes + counters.errors
        /\ ReturnedOk => counters.successes >= 1
        /\ ReturnedErr => counters.errors >= 1

====
